---- MODULE Spec2Model ----
(***************************************************************************)
(* Vehicle price estimation (car-valuation-turkey): the data cleaning,     *)
(* categorical encoding, model training/selection, persistence and         *)
(* single-record prediction of src/src/preprocessing.py and                *)
(* src/src/model.py, as state machines.                                    *)
(*                                                                         *)
(* Representation.                                                         *)
(*  - A JSON record / DataFrame row is a record with the five fields       *)
(*    year, brand, model, package, price.  A numeric cell (year, price)    *)
(*    is [k, v]: k = "int" (the integer v), "str" (a string that int()     *)
(*    parses to v), "bad" (a string int() rejects) or "null" (None/NaN).   *)
(*    A categorical cell is a string, NullStr standing for None/NaN.       *)
(*  - A DataFrame is [columns, index, rows]: columns tells whether the     *)
(*    five columns exist (pd.DataFrame([]) has none), index is the row     *)
(*    labels, rows the row values, in order.                               *)
(*  - Prices are in units of the dataset's price granularity; quartiles    *)
(*    are kept exact by scaling (x4 for a quartile, x8 for a bound).       *)
(***************************************************************************)
EXTENDS Integers, Sequences, FiniteSets, TLC

VARIABLES
    data,       \* the JSON list read by load_data (a sequence of records)
    df,         \* the caller's DataFrame (main.py:72), "none" before load_data
    cleaned,    \* what clean_data(df) returned or raised
    recleaned,  \* what clean_data(clean_data(df)) returned or raised
    train_df,   \* the clean DataFrame rows handed to encode_features/train_models
    encoders,   \* the dict of fitted LabelEncoders, "none" before fitting
    trained,    \* what train_models returned or raised
    retrained,  \* what a second training run on the same dataset returned
    disk,       \* the file system: path -> pickled content
    saved,      \* the (model, encoders) pairs passed to save_model calls
    loaded,     \* what the last load_model returned or raised
    saver,      \* a save_model call in progress: its position and arguments
    loader,     \* a load_model call in progress: its position and what it read
    predicted,  \* what the last predict_price returned or raised
    cli,        \* how the last cli_predict ended
    predictors  \* the predict_price calls in progress: position and locals of each

vars == <<data, df, cleaned, recleaned, train_df, encoders, trained, retrained,
          disk, saved, loaded, saver, loader, predicted, cli, predictors>>

cleanVars == <<data, df, cleaned, recleaned>>
trainVars == <<train_df, encoders, trained, retrained>>
storeVars == <<disk, saved, loaded, saver, loader>>
predictVars == <<predicted, cli, predictors>>

None == [status |-> "none"]

(***************************************************************************)
(* Bounds of the model.                                                    *)
(***************************************************************************)
MaxLen == 5        \* longest input of complete, integer-typed records
MaxDirtyLen == 3   \* longest input that may hold null or string cells

(***************************************************************************)
(* Category strings.  AllStrings lists every string of the model in        *)
(* code-point order, which is the order numpy sorts them in.               *)
(***************************************************************************)
NullStr == "<NA>"

AllStrings == <<"A3", "Audi", "BMW", "Corolla", "Dream", "Elegance", "Toyota">>

LexRank(s) == CHOOSE i \in 1..Len(AllStrings) : AllStrings[i] = s

LexLess(a, b) == LexRank(a) < LexRank(b)

(***************************************************************************)
(* Cells, records and frames.                                              *)
(***************************************************************************)
IntCell(n) == [k |-> "int", v |-> n]
StrCell(n) == [k |-> "str", v |-> n]
BadCell == [k |-> "bad", v |-> 0]
NullCell == [k |-> "null", v |-> 0]

Rec(y, b, m, p, pr) == [year |-> y, brand |-> b, model |-> m, package |-> p, price |-> pr]

Frame(rows) == [columns |-> TRUE, index |-> [i \in 1..Len(rows) |-> i - 1], rows |-> rows]

EmptyFrame == [columns |-> FALSE, index |-> <<>>, rows |-> <<>>]

\* the positions 1..n whose mask is TRUE, in increasing order
RECURSIVE Kept(_, _)
Kept(mask, n) ==
    IF n = 0 THEN <<>>
    ELSE IF mask[n] THEN Append(Kept(mask, n - 1), n) ELSE Kept(mask, n - 1)

\* df[mask]: boolean indexing keeps rows and their index labels, in order
ApplyMask(f, mask) ==
    LET pos == Kept(mask, Len(f.rows))
    IN  [columns |-> f.columns,
         index |-> [j \in 1..Len(pos) |-> f.index[pos[j]]],
         rows |-> [j \in 1..Len(pos) |-> f.rows[pos[j]]]]

(***************************************************************************)
(* load_data: pd.DataFrame(json.load(f)).  An empty list gives a frame     *)
(* with no columns at all.                                                 *)
(***************************************************************************)
load_data(records) == IF records = <<>> THEN EmptyFrame ELSE Frame(records)

(***************************************************************************)
(* clean_data, step 1: missing values.                                     *)
(***************************************************************************)
NullCount(r) ==
    (IF r.year.k = "null" THEN 1 ELSE 0) + (IF r.brand = NullStr THEN 1 ELSE 0)
    + (IF r.model = NullStr THEN 1 ELSE 0) + (IF r.package = NullStr THEN 1 ELSE 0)
    + (IF r.price.k = "null" THEN 1 ELSE 0)

HasNull(r) == NullCount(r) > 0

RECURSIVE SumNulls(_, _)
SumNulls(rows, n) == IF n = 0 THEN 0 ELSE SumNulls(rows, n - 1) + NullCount(rows[n])

\* df.isnull().sum().sum()
TotalMissing(f) == SumNulls(f.rows, Len(f.rows))

\* df.dropna(): drops every row holding at least one null cell
DropNaAll(f) == ApplyMask(f, [i \in 1..Len(f.rows) |-> NullCount(f.rows[i]) = 5])

DropNa(f) == ApplyMask(f, [i \in 1..Len(f.rows) |-> ~HasNull(f.rows[i])])

MissingStep(f) == IF TotalMissing(f) > 0 THEN DropNa(f) ELSE f

(***************************************************************************)
(* clean_data, step 2: df[col].astype(int) for year and price.  int() of a *)
(* numeric string is its value; a string that is no integer raises         *)
(* ValueError for the whole column.                                        *)
(***************************************************************************)
CanCast(c) == c.k \in {"int", "str"}

CastInt(c) == IF c.k = "str" THEN IntCell(c.v) ELSE c

YearCastable(f) == \A i \in 1..Len(f.rows) : CanCast(f.rows[i].year)

PriceCastable(f) == \A i \in 1..Len(f.rows) : CanCast(f.rows[i].price)

CastYear(f) ==
    [f EXCEPT !.rows = [i \in 1..Len(f.rows) |-> [f.rows[i] EXCEPT !.year = CastInt(@)]]]

CastPrice(f) ==
    [f EXCEPT !.rows = [i \in 1..Len(f.rows) |-> [f.rows[i] EXCEPT !.price = CastInt(@)]]]

(***************************************************************************)
(* clean_data, step 3: IQR outlier removal on price.  Series.quantile      *)
(* interpolates linearly between order statistics: with h = q*(n-1), the   *)
(* quantile is s[floor(h)] + frac(h)*(s[floor(h)+1] - s[floor(h)]).        *)
(***************************************************************************)
RECURSIVE Insert(_, _)
Insert(s, x) ==
    IF s = <<>> THEN <<x>>
    ELSE IF x >= s[Len(s)] THEN Append(s, x)
    ELSE Append(Insert(SubSeq(s, 1, Len(s) - 1), x), s[Len(s)])

RECURSIVE SortPrefix(_, _)
SortPrefix(s, n) == IF n = 0 THEN <<>> ELSE Insert(SortPrefix(s, n - 1), s[n])

Sorted(s) == SortPrefix(s, Len(s))

PriceOf(f) == [i \in 1..Len(f.rows) |-> f.rows[i].price.v]

\* 4 * quantile(num/4) of a non-empty sequence of integers
Quantile4(s, num) ==
    LET srt == Sorted(s)
        h == num * (Len(s) - 1)
        lo == h \div 4
        r == h % 4
    IN  IF r = 0 THEN 4 * srt[lo + 1]
        ELSE 4 * srt[lo + 1] + r * (srt[lo + 2] - srt[lo + 1])

Q1x4(f) == Quantile4(PriceOf(f), 1)
Q3x4(f) == Quantile4(PriceOf(f), 3)
IQRx4(f) == Q3x4(f) - Q1x4(f)

\* 8 * (Q1 - 1.5*IQR) and 8 * (Q3 + 1.5*IQR)
LowerBoundHalf8(f) == 2 * Q1x4(f) - IQRx4(f)

LowerBound8(f) == 2 * Q1x4(f) - 3 * IQRx4(f)
UpperBound8(f) == 2 * Q3x4(f) + 3 * IQRx4(f)

\* (df["price"] < lower_bound) | (df["price"] > upper_bound), with the
\* bounds times 8
IsOutlier(price, lower8, upper8) == 8 * price < lower8 \/ 8 * price > upper8

\* a filter that keeps only what lies strictly between the bounds
InBoundsStrict(price, lower8, upper8) == 8 * price > lower8 /\ 8 * price < upper8

\* (df["price"] >= lower_bound) & (df["price"] <= upper_bound)
InBounds(price, lower8, upper8) == 8 * price >= lower8 /\ 8 * price <= upper8

\* every comparison with the NaN quantiles of an empty frame is False
OutlierCount(f) ==
    IF Len(f.rows) = 0 THEN 0
    ELSE LET lower8 == LowerBound8(f)
             upper8 == UpperBound8(f)
         IN  Cardinality({i \in 1..Len(f.rows) :
                            IsOutlier(f.rows[i].price.v, lower8, upper8)})

OutlierStep(f) ==
    IF OutlierCount(f) > 0
    THEN LET lower8 == LowerBound8(f)
             upper8 == UpperBound8(f)
         IN  ApplyMask(f, [i \in 1..Len(f.rows) |->
                             InBounds(f.rows[i].price.v, lower8, upper8)])
    ELSE f

(***************************************************************************)
(* clean_data, step 4: duplicates.  duplicated() marks a row equal in all  *)
(* five columns to an earlier row; drop_duplicates() keeps the first.      *)
(***************************************************************************)
Duplicated(f, i) == \E j \in 1..(i - 1) : f.rows[j] = f.rows[i]

DuplicateCount(f) == Cardinality({i \in 1..Len(f.rows) : Duplicated(f, i)})

\* a removal made while iterating, which skips the row after each removed row
RECURSIVE RemovedSkipping(_, _)
RemovedSkipping(f, i) ==
    IF i = 0 THEN FALSE ELSE Duplicated(f, i) /\ ~RemovedSkipping(f, i - 1)

DropDuplicatesSkipping(f) ==
    ApplyMask(f, [i \in 1..Len(f.rows) |-> ~RemovedSkipping(f, i)])

\* drop_duplicates(keep="last"): a row goes when a later row equals it
DropDuplicatesKeepLast(f) ==
    ApplyMask(f, [i \in 1..Len(f.rows) |->
                    ~\E j \in (i + 1)..Len(f.rows) : f.rows[j] = f.rows[i]])

DropDuplicates(f) == ApplyMask(f, [i \in 1..Len(f.rows) |-> ~Duplicated(f, i)])

DuplicateStep(f) == IF DuplicateCount(f) > 0 THEN DropDuplicates(f) ELSE f

\* df.reset_index(drop=True): a new frame labelled 0..n-1
ResetIndex(f) == [f EXCEPT !.index = [i \in 1..Len(f.rows) |-> i - 1]]

(***************************************************************************)
(* clean_data as a whole: what it returns or raises.  missing, typed and   *)
(* outlier are the local df after steps 1, 2 and 3.                        *)
(***************************************************************************)
Raised(kind, m) ==
    [status |-> kind, frame |-> EmptyFrame, missing |-> m,
     typed |-> EmptyFrame, outlier |-> EmptyFrame]

clean_data(f) ==
    IF ~f.columns THEN Raised("KeyError", MissingStep(f))
    ELSE LET m == MissingStep(f)
         IN  IF ~YearCastable(m) \/ ~PriceCastable(m) THEN Raised("ValueError", m)
             ELSE LET t == CastPrice(CastYear(m))
                      o == OutlierStep(t)
                      u == DuplicateStep(o)
                  IN  [status |-> "ok", frame |-> ResetIndex(u), missing |-> m,
                       typed |-> t, outlier |-> o]

\* What clean_data leaves in the caller's frame: without missing values df
\* is never rebound before the two column assignments of lines 48-49, which
\* then write the caller's object.
InPlaceEffect(f) ==
    IF ~f.columns \/ TotalMissing(f) > 0 \/ ~YearCastable(f) THEN f
    ELSE IF ~PriceCastable(f) THEN CastYear(f)
    ELSE CastPrice(CastYear(f))

(***************************************************************************)
(* The cleaning specification: main.py lines 72-73 on a bounded input.     *)
(***************************************************************************)
PriceLevels == {0, 2, 3}

BaseRecord == Rec(IntCell(2024), "Audi", "A3", "Dream", IntCell(2))

CompletePool ==
    {Rec(IntCell(2024), b, "A3", "Dream", IntCell(p)) : b \in {"Audi", "BMW"}, p \in PriceLevels}

DirtyPool ==
    {BaseRecord,
     Rec(IntCell(2024), "BMW", "A3", "Dream", IntCell(3)),
     [BaseRecord EXCEPT !.year = NullCell],
     [BaseRecord EXCEPT !.brand = NullStr],
     [BaseRecord EXCEPT !.model = NullStr],
     [BaseRecord EXCEPT !.package = NullStr],
     [BaseRecord EXCEPT !.price = NullCell],
     [BaseRecord EXCEPT !.year = StrCell(2024), !.price = StrCell(2)],
     [BaseRecord EXCEPT !.year = BadCell],
     [BaseRecord EXCEPT !.price = BadCell]}

SeqsUpTo(S, n) == UNION {[1..k -> S] : k \in 0..n}

Inputs == SeqsUpTo(CompletePool, MaxLen) \cup SeqsUpTo(DirtyPool, MaxDirtyLen)

IdleClean == /\ data = <<>> /\ df = None /\ cleaned = None /\ recleaned = None
IdleTrain ==
    /\ train_df = <<>> /\ encoders = None /\ trained = None /\ retrained = None
IdleStore ==
    /\ disk = [p \in {} |-> None]
    /\ saved = {} /\ loaded = None /\ saver = None /\ loader = None
\* the processes that call predict_price side by side
Callers == {"first", "second"}

IdleCaller ==
    [pc |-> "idle", args |-> None, model |-> None, encoders |-> None,
     result |-> None, overlapped |-> FALSE]

IdlePredict ==
    /\ predicted = None /\ cli = None
    /\ predictors = [c \in Callers |-> IdleCaller]

Init ==
    /\ data \in Inputs
    /\ df = None /\ cleaned = None /\ recleaned = None
    /\ IdleTrain /\ IdleStore /\ IdlePredict

LoadData ==
    /\ df = None
    /\ df' = load_data(data)
    /\ UNCHANGED <<data, cleaned, recleaned, trainVars, storeVars, predictVars>>

CleanData ==
    /\ df # None /\ cleaned = None
    /\ cleaned' = clean_data(df)
    /\ df' = InPlaceEffect(df)
    /\ UNCHANGED <<data, recleaned, trainVars, storeVars, predictVars>>

CleanAgain ==
    /\ cleaned # None /\ cleaned.status = "ok" /\ recleaned = None
    /\ recleaned' = clean_data(cleaned.frame)
    /\ cleaned' = [cleaned EXCEPT !.frame = InPlaceEffect(@)]
    /\ UNCHANGED <<data, df, trainVars, storeVars, predictVars>>

Next == LoadData \/ CleanData \/ CleanAgain

Spec == Init /\ [][Next]_vars

(***************************************************************************)
(* LabelEncoder (sklearn), as encode_features and predict_price use it:    *)
(* classes_ is the sorted sequence of the distinct fitted values,          *)
(* transform gives a value's 0-based position in classes_ and raises       *)
(* ValueError for a value that is not there, inverse_transform indexes     *)
(* classes_.                                                               *)
(***************************************************************************)
MinString(S) == CHOOSE s \in S : \A t \in S : s = t \/ LexLess(s, t)

RECURSIVE SortedStrings(_)
SortedStrings(S) ==
    IF S = {} THEN <<>>
    ELSE LET m == MinString(S) IN <<m>> \o SortedStrings(S \ {m})

Column(rows, col) ==
    [i \in 1..Len(rows) |->
        IF col = "brand" THEN rows[i].brand
        ELSE IF col = "model" THEN rows[i].model ELSE rows[i].package]

Range(s) == {s[i] : i \in 1..Len(s)}

\* the distinct values in the order of their first appearance (pd.factorize)
RECURSIVE FirstSeen(_, _)
FirstSeen(values, n) ==
    IF n = 0 THEN <<>>
    ELSE LET before == FirstSeen(values, n - 1)
         IN  IF \E j \in 1..(n - 1) : values[j] = values[n] THEN before
             ELSE Append(before, values[n])

LabelEncoderFitFirstSeen(values) == FirstSeen(values, Len(values))

\* LabelEncoder().fit(values).classes_
LabelEncoderFit(values) == SortedStrings(Range(values))

PositionIn(classes, v) == CHOOSE i \in 1..Len(classes) : classes[i] = v

\* a position looked up on the wrong side of the value (searchsorted, side="right")
TransformRightSide(classes, v) ==
    IF v \in Range(classes)
    THEN [status |-> "ok", code |-> PositionIn(classes, v)]
    ELSE [status |-> "ValueError", code |-> 0]

\* le.transform([v])[0]
Transform(classes, v) ==
    IF v \in Range(classes)
    THEN [status |-> "ok", code |-> PositionIn(classes, v) - 1]
    ELSE [status |-> "ValueError", code |-> 0]

\* le.inverse_transform([code])[0]
Inverse(classes, code) ==
    IF code \in 0..(Len(classes) - 1)
    THEN [status |-> "ok", value |-> classes[code + 1]]
    ELSE [status |-> "ValueError", value |-> NullStr]

\* the encoders dict of encode_features
FitEncoders(rows) ==
    [brand |-> LabelEncoderFit(Column(rows, "brand")),
     model |-> LabelEncoderFit(Column(rows, "model")),
     package |-> LabelEncoderFit(Column(rows, "package"))]

Encodable(rows, enc) ==
    \A i \in 1..Len(rows) :
        /\ rows[i].brand \in Range(enc.brand)
        /\ rows[i].model \in Range(enc.model)
        /\ rows[i].package \in Range(enc.package)

\* df_encoded: the three categorical columns replaced by their codes
EncodeRows(rows, enc) ==
    [i \in 1..Len(rows) |->
        [year |-> rows[i].year.v,
         brand |-> Transform(enc.brand, rows[i].brand).code,
         model |-> Transform(enc.model, rows[i].model).code,
         package |-> Transform(enc.package, rows[i].package).code,
         price |-> rows[i].price.v]]

encode_features(rows) ==
    [df_encoded |-> EncodeRows(rows, FitEncoders(rows)), encoders |-> FitEncoders(rows)]

(***************************************************************************)
(* train_models.  The regressors are library objects: fitting one yields   *)
(* an estimator with some fitted state theta and some test RMSE, both      *)
(* chosen by the caller of train_models below.                             *)
(***************************************************************************)
MaxTrainLen == 3   \* longest clean dataset handed to train_models
MaxRmse == 2       \* RMSE values 0..MaxRmse

Candidates == <<"Linear Regression", "Random Forest", "Gradient Boosting">>

\* float("inf"), the initial best_rmse
Infinity == -1

\* train_test_split(test_size=0.2): n_test = ceil(0.2 * n), n_train = n - n_test
\* (0.2 * n is exact or rounds to the exact product's ceiling for n < 15)
NTest(n) == (n + 4) \div 5
NTrain(n) == n - NTest(n)

\* the partitions train_test_split can make of n rows, each named by the
\* positions that go to the test set
TestSets(n) == {T \in SUBSET (1..n) : Cardinality(T) = NTest(n)}

\* the library calls of train_models that draw random numbers, with the
\* forest left at random_state=None
SeededCallsWithoutForest == {"train_test_split", "Gradient Boosting"}

\* the library calls that draw random numbers and are given random_state=42
SeededCalls == {"train_test_split", "Random Forest", "Gradient Boosting"}

\* LinearRegression() draws no random numbers
SeedlessCalls == {"Linear Regression"}

\* a call whose outcome is fixed by its arguments: scikit-learn repeats the
\* outcome of a call given the same data and the same integer random_state
Reproducible(call) == call \in SeededCalls \cup SeedlessCalls

\* rmse <= best_rmse: a tie replaces the earlier candidate
ImprovesOrTies(rmse, best) == best = Infinity \/ rmse <= best

\* rmse < best_rmse
Improves(rmse, best) == best = Infinity \/ rmse < best

Estimator(name, theta) == [estimator |-> name, theta |-> theta]

NoBest == [best_rmse |-> Infinity, best_model |-> None, best_model_name |-> "None"]

\* the for loop over models.items(), from candidate i on
RECURSIVE SelectionLoop(_, _, _)
SelectionLoop(fit, i, best) ==
    IF i > Len(Candidates) THEN best
    ELSE SelectionLoop(fit, i + 1,
            IF Improves(fit[i].rmse, best.best_rmse)
            THEN [best_rmse |-> fit[i].rmse,
                  best_model |-> Estimator(Candidates[i], fit[i].theta),
                  best_model_name |-> Candidates[i]]
            ELSE best)

TrainRaised(kind) ==
    [status |-> kind, best_model |-> None, best_model_name |-> "None",
     best_rmse |-> Infinity, encoders |-> None, results |-> <<>>,
     n_train |-> 0, n_test |-> 0, test_idx |-> {}]

\* train_models(df, encoders) where test_idx is the partition the split makes
\* and fit[i] is what fitting and scoring candidate i gives; enc = None stands
\* for encoders=None
train_models(rows, enc, test_idx, fit) ==
    LET e == IF enc = None THEN FitEncoders(rows) ELSE enc
    IN  IF ~Encodable(rows, e) THEN TrainRaised("ValueError")
        ELSE IF Len(rows) = 0 \/ NTrain(Len(rows)) = 0 THEN TrainRaised("ValueError")
        ELSE LET best == SelectionLoop(fit, 1, NoBest)
             IN  [status |-> "ok",
                  best_model |-> best.best_model,
                  best_model_name |-> best.best_model_name,
                  best_rmse |-> best.best_rmse,
                  encoders |-> e,
                  results |-> [i \in 1..Len(Candidates) |->
                                 [name |-> Candidates[i],
                                  model |-> Estimator(Candidates[i], fit[i].theta),
                                  rmse |-> fit[i].rmse,
                                  mae |-> fit[i].mae,
                                  r2 |-> fit[i].r2]],
                  n_train |-> NTrain(Len(rows)),
                  n_test |-> NTest(Len(rows)),
                  test_idx |-> test_idx]

(***************************************************************************)
(* The training specification: main.py lines 74-75 on a bounded clean      *)
(* dataset.                                                                *)
(***************************************************************************)
TrainPool ==
    {Rec(IntCell(2024), "Audi", "A3", "Dream", IntCell(2)),
     Rec(IntCell(2024), "Audi", "A3", "Elegance", IntCell(3)),
     Rec(IntCell(2024), "BMW", "A3", "Dream", IntCell(3)),
     Rec(IntCell(2024), "Toyota", "Corolla", "Dream", IntCell(2))}

\* what fitting and scoring one candidate can give: the fitted state and the
\* three scores of lines 77-79, in whole units.  The mean absolute error is
\* at most the RMSE and zero with it; r2 is 1 for a perfect fit, 0 for less.
FitOutcomes ==
    {o \in [rmse : 0..MaxRmse, mae : 0..MaxRmse, r2 : {0, 1}, theta : {0}] :
        /\ o.mae <= o.rmse
        /\ (o.mae = 0) = (o.rmse = 0)
        /\ (o.r2 = 1) = (o.rmse = 0)}

\* a clean dataset is one clean_data returns: clean_data leaves it as it is
IsClean(rows) == clean_data(Frame(rows)).frame.rows = rows

InitTrain ==
    /\ train_df \in {rows \in SeqsUpTo(TrainPool, MaxTrainLen) : IsClean(rows)}
    /\ encoders = None /\ trained = None /\ retrained = None
    /\ IdleClean /\ IdleStore /\ IdlePredict

\* main.py:74  _, encoders = encode_features(df)
EncodeFeatures ==
    /\ encoders = None /\ trained = None
    /\ encoders' = encode_features(train_df).encoders
    /\ UNCHANGED <<train_df, trained, retrained, cleanVars, storeVars, predictVars>>

\* main.py:75  train_models(df, encoders), or train_models(df)
TrainModels ==
    /\ trained = None
    /\ \E test_idx \in TestSets(Len(train_df)),
          fit \in [1..Len(Candidates) -> FitOutcomes] :
          trained' = train_models(train_df, encoders, test_idx, fit)
    /\ encoders' = IF trained'.status = "ok" THEN trained'.encoders ELSE encoders
    /\ UNCHANGED <<train_df, retrained, cleanVars, storeVars, predictVars>>

\* what the first run's fit of candidate i gave
FirstFit(i) ==
    [rmse |-> trained.results[i].rmse, mae |-> trained.results[i].mae,
     r2 |-> trained.results[i].r2, theta |-> trained.results[i].model.theta]

\* the partitions a second run's split can make: a reproducible call gives
\* what it gave in the first run
SecondSplits ==
    IF Reproducible("train_test_split") THEN {trained.test_idx}
    ELSE TestSets(Len(train_df))

\* what a second run's fit of candidate i can give on the partition test_idx:
\* a reproducible call given the arguments it had in the first run gives
\* what it gave then
SecondFits(i, test_idx) ==
    IF Reproducible(Candidates[i]) /\ test_idx = trained.test_idx THEN {FirstFit(i)}
    ELSE FitOutcomes

\* a second run of main.py:75 on the same dataset
TrainAgain ==
    /\ trained # None /\ trained.status = "ok" /\ retrained = None
    /\ \E test_idx \in SecondSplits :
       \E linear \in SecondFits(1, test_idx) :
       \E forest \in SecondFits(2, test_idx) :
       \E boosting \in SecondFits(3, test_idx) :
          retrained' = train_models(train_df, encoders, test_idx,
                                    <<linear, forest, boosting>>)
    /\ UNCHANGED <<train_df, encoders, trained, cleanVars, storeVars, predictVars>>

NextTrain == EncodeFeatures \/ TrainModels \/ TrainAgain

SpecTrain == InitTrain /\ [][NextTrain]_vars

(***************************************************************************)
(* The file system and pickle.  A file is missing, partial (opened for     *)
(* writing and truncated, its pickle not yet complete) or holds the        *)
(* pickle of an object.                                                    *)
(***************************************************************************)
Path(dir, file) == [dir |-> dir, file |-> file]

\* os.path.join(os.path.dirname(model_path), "encoders.pkl")
EncoderPath(model_path) == Path(model_path.dir, "encoders.pkl")

\* MODEL_PATH, model.py:24
DefaultPath == Path("output", "model.pkl")

Missing == [kind |-> "missing", obj |-> None]
Partial == [kind |-> "partial", obj |-> None]
Pickle(obj) == [kind |-> "pickle", obj |-> obj]

\* open(path, "wb"): creates or truncates
OpenForWrite(d, path) == [d EXCEPT ![path] = Partial]

\* open(path, "w+b"): opens for reading and writing, and truncates
OpenTruncating(d, path) == [d EXCEPT ![path] = Partial]

\* open(path, "rb"): leaves the file as it is
OpenForRead(d, path) == d

\* pickle.dump(obj, f) and the close of the with block
Dump(d, path, obj) == [d EXCEPT ![path] = Pickle(obj)]

\* save_model run from start to end
save_model(d, model, enc, path) ==
    LET d1 == Dump(OpenForWrite(d, path), path, model)
    IN  Dump(OpenForWrite(d1, EncoderPath(path)), EncoderPath(path), enc)

\* with open(path, "rb") as f: pickle.load(f)
ReadPickle(d, path) ==
    IF d[path].kind = "missing" THEN [status |-> "FileNotFoundError", obj |-> None]
    ELSE IF d[path].kind = "partial" THEN [status |-> "UnpicklingError", obj |-> None]
    ELSE [status |-> "ok", obj |-> d[path].obj]

LoadRaised(kind) == [status |-> kind, model |-> None, encoders |-> None]

\* load_model run from start to end
load_model(d, path) ==
    LET m == ReadPickle(d, path)
        e == ReadPickle(d, EncoderPath(path))
    IN  IF m.status # "ok" THEN LoadRaised(m.status)
        ELSE IF e.status # "ok" THEN LoadRaised(e.status)
        ELSE [status |-> "ok", model |-> m.obj, encoders |-> e.obj]

(***************************************************************************)
(* predict_price.                                                          *)
(***************************************************************************)
MaxTheta == 6      \* fitted states -MaxTheta..MaxTheta of a stored regressor

BaseYear == 2024

\* the price step of the stand-in regressor below, in TL
RawStep == 2500

\* model.predict(X_input)[0]: the regressor is a library object; this one
\* stands for it with an output that depends on its fitted state and on
\* every feature
ModelPredict(m, X) ==
    RawStep * (m.theta + (X.year - BaseYear) + X.brand + X.model + X.package)

\* round(x) for x = n / d, d > 0: to the nearest integer, a tie to the even one
RoundHalfEven(n, d) ==
    LET q == n \div d
        r == n - q * d
    IN  IF 2 * r < d THEN q
        ELSE IF 2 * r > d THEN q + 1
        ELSE IF q % 2 = 0 THEN q ELSE q + 1

\* int(x) for x = n / d, d > 0: towards zero
TruncateDiv(n, d) == IF n >= 0 THEN n \div d ELSE -((-n) \div d)

QuantizeTruncating(raw) == TruncateDiv(raw, 10000) * 10000

\* int(round(predicted_price / 10_000) * 10_000)
Quantize(raw) == RoundHalfEven(raw, 10000) * 10000

Args(year, brand, model_name, package) ==
    [year |-> year, brand |-> brand, model |-> model_name, package |-> package]

PredictRaised(kind, args) ==
    [status |-> kind, args |-> args, field |-> "", value |-> "", valid |-> <<>>,
     raw |-> 0, price |-> 0]

\* an error message copied from the brand check
UnknownBrandMessage(args, field, value, classes) ==
    [status |-> "ValueError", args |-> args, field |-> "brand", value |-> value,
     valid |-> classes, raw |-> 0, price |-> 0]

\* ValueError(f"Unknown {field}: '{value}'. Valid {field}s: {list(classes_)}")
UnknownCategory(args, field, value, classes) ==
    [status |-> "ValueError", args |-> args, field |-> field, value |-> value,
     valid |-> classes, raw |-> 0, price |-> 0]

\* predict_price from line 142 on, with the model and encoders it loaded
PredictWith(model, enc, args) ==
    LET b == Transform(enc.brand, args.brand)
        m == Transform(enc.model, args.model)
        p == Transform(enc.package, args.package)
    IN  IF b.status # "ok" THEN UnknownCategory(args, "brand", args.brand, enc.brand)
        ELSE IF m.status # "ok"
             THEN UnknownCategory(args, "model", args.model, enc.model)
        ELSE IF p.status # "ok"
             THEN UnknownCategory(args, "package", args.package, enc.package)
        ELSE LET X == [year |-> args.year, brand |-> b.code, model |-> m.code,
                       package |-> p.code]
                 raw == ModelPredict(model, X)
             IN  [status |-> "ok", args |-> args, field |-> "", value |-> "",
                  valid |-> <<>>, raw |-> raw, price |-> Quantize(raw)]

predict_price(d, year, brand, model_name, package) ==
    LET args == Args(year, brand, model_name, package)
        bundle == load_model(d, DefaultPath)
    IN  IF bundle.status # "ok" THEN PredictRaised(bundle.status, args)
        ELSE PredictWith(bundle.model, bundle.encoders, args)

(***************************************************************************)
(* The prediction specification: predict_price calls against a bundle that *)
(* a completed save_model left at the default location.                    *)
(***************************************************************************)
Brands == {"Audi", "BMW", "Toyota"}
Models == {"A3", "Corolla"}
Packages == {"Dream", "Elegance"}
Years == {2024, 2025}

\* the encoders a fit leaves: any non-empty vocabulary per field
FittedEncoders ==
    {[brand |-> LabelEncoderFit(SortedStrings(B)), model |-> LabelEncoderFit(SortedStrings(M)),
      package |-> LabelEncoderFit(SortedStrings(P))] :
        B \in (SUBSET Brands) \ {{}}, M \in (SUBSET Models) \ {{}},
        P \in (SUBSET Packages) \ {{}}}

StoredModels == {Estimator("Gradient Boosting", t) : t \in (-MaxTheta)..MaxTheta}

PredictFiles == {DefaultPath, EncoderPath(DefaultPath)}

InitPredict ==
    /\ \E m \in StoredModels : \E e \in FittedEncoders :
          /\ disk = save_model([p \in PredictFiles |-> Missing], m, e, DefaultPath)
          /\ saved = {<<m, e>>}
    /\ loaded = None /\ saver = None /\ loader = None
    /\ IdlePredict
    /\ IdleClean /\ IdleTrain

PredictPrice ==
    /\ \E year \in Years : \E brand \in Brands : \E model_name \in Models :
       \E package \in Packages :
          predicted' = predict_price(disk, year, brand, model_name, package)
    /\ UNCHANGED <<cleanVars, trainVars, storeVars, cli, predictors>>

NextPredict == PredictPrice

SpecPredict == InitPredict /\ [][NextPredict]_vars

(***************************************************************************)
(* The command line: python main.py predict <year> <brand> <model>         *)
(* <package> against the same bundle.  The year arrives as a string.       *)
(***************************************************************************)
YearArgs == {StrCell(y) : y \in Years} \cup {BadCell}

\* the exception object a handler receives: its class and what the raise
\* statement gave it.  ValueError(text) has the text as its only argument
\* and no attribute beyond args.
Exception(class, text) == [class |-> class, args |-> <<text>>, attrs |-> {"args"}]

\* f"Unknown {field}: '{value}'. Valid {field}s: {list(classes_)}"
UnknownText(r) == [text |-> "Unknown", field |-> r.field, value |-> r.value,
                   valid |-> r.valid]

\* int(args[0]) on a string that is no integer literal
IntLiteralText == [text |-> "invalid literal for int() with base 10",
                   field |-> "", value |-> "", valid |-> <<>>]

NoException == Exception("", IntLiteralText)

CliEnded(status, code, argv, e, caught) ==
    [status |-> status, code |-> code, argv |-> argv, exception |-> e,
     caught |-> caught]

\* cli_predict(args) with len(args) = 4, and the predict_price result it got
cli_predict(d, argv) ==
    IF ~CanCast(argv.year)
    THEN [call |-> None,
          end |-> CliEnded("exit", 1, argv, Exception("ValueError", IntLiteralText),
                           "except ValueError")]
    ELSE LET r == predict_price(d, CastInt(argv.year).v, argv.brand, argv.model,
                                argv.package)
         IN  [call |-> r,
              end |-> IF r.status = "ok"
                      THEN CliEnded("printed", 0, argv, NoException, "")
                      ELSE IF r.status = "ValueError"
                      THEN CliEnded("exit", 1, argv,
                                    Exception("ValueError", UnknownText(r)),
                                    "except ValueError")
                      ELSE CliEnded("traceback", 1, argv,
                                    Exception(r.status, IntLiteralText), "")]

CliPredict ==
    /\ cli = None
    /\ \E year \in YearArgs : \E brand \in Brands : \E model_name \in Models :
       \E package \in Packages :
          LET out == cli_predict(disk, Args(year, brand, model_name, package))
          IN  /\ cli' = out.end
              /\ predicted' = IF out.call = None THEN predicted ELSE out.call
    /\ UNCHANGED <<cleanVars, trainVars, storeVars, predictors>>

NextCli == CliPredict

SpecCli == InitPredict /\ [][NextCli]_vars

(***************************************************************************)
(* predict_price step by step, called by several processes side by side    *)
(* against one bundle: each call reads the model file, reads the encoders  *)
(* file, then encodes, predicts and rounds with the objects it read.       *)
(***************************************************************************)
\* two stored bundles: every category fitted, and Toyota and Elegance not
SharedBundles ==
    {<<Estimator("Gradient Boosting", t),
       [brand |-> LabelEncoderFit(SortedStrings(B)),
        model |-> LabelEncoderFit(SortedStrings(Models)),
        package |-> LabelEncoderFit(SortedStrings(P))]>> :
        t \in {0, MaxTheta}, B \in {Brands, Brands \ {"Toyota"}},
        P \in {Packages, Packages \ {"Elegance"}}}

InitPredictSteps ==
    /\ \E bundle \in SharedBundles :
          /\ disk = save_model([p \in PredictFiles |-> Missing], bundle[1], bundle[2],
                               DefaultPath)
          /\ saved = {bundle}
    /\ loaded = None /\ saver = None /\ loader = None
    /\ IdlePredict
    /\ IdleClean /\ IdleTrain

InProgress(c) == predictors[c].pc \notin {"idle", "done"}

\* predict_price(year, brand, model_name, package) is entered
PredictCall(c) ==
    /\ predictors[c].pc = "idle"
    /\ \E year \in Years : \E brand \in Brands : \E model_name \in Models :
       \E package \in Packages :
          predictors' = [predictors EXCEPT ![c] =
              [@ EXCEPT !.pc = "read_model",
                        !.args = Args(year, brand, model_name, package),
                        !.overlapped = \E o \in Callers \ {c} : InProgress(o)]]
    /\ UNCHANGED <<cleanVars, trainVars, storeVars, predicted, cli>>

\* load_model: with open(model_path, "rb") as f: model = pickle.load(f)
PredictReadModel(c) ==
    /\ predictors[c].pc = "read_model"
    /\ disk' = OpenForRead(disk, DefaultPath)
    /\ LET m == ReadPickle(disk', DefaultPath)
       IN  predictors' = [predictors EXCEPT ![c] =
              IF m.status = "ok"
              THEN [@ EXCEPT !.pc = "read_encoders", !.model = m.obj]
              ELSE [@ EXCEPT !.pc = "done",
                             !.result = PredictRaised(m.status, predictors[c].args)]]
    /\ UNCHANGED <<saved, loaded, saver, loader, cleanVars, trainVars, predicted, cli>>

\* load_model: with open(encoder_path, "rb") as f: encoders = pickle.load(f)
PredictReadEncoders(c) ==
    /\ predictors[c].pc = "read_encoders"
    /\ disk' = OpenForRead(disk, EncoderPath(DefaultPath))
    /\ LET e == ReadPickle(disk', EncoderPath(DefaultPath))
       IN  predictors' = [predictors EXCEPT ![c] =
              IF e.status = "ok"
              THEN [@ EXCEPT !.pc = "compute", !.encoders = e.obj]
              ELSE [@ EXCEPT !.pc = "done",
                             !.result = PredictRaised(e.status, predictors[c].args)]]
    /\ UNCHANGED <<saved, loaded, saver, loader, cleanVars, trainVars, predicted, cli>>

\* lines 142-172: the three transforms, model.predict and the rounding
PredictCompute(c) ==
    /\ predictors[c].pc = "compute"
    /\ predictors' = [predictors EXCEPT ![c] =
          [@ EXCEPT !.pc = "done",
                    !.result = PredictWith(predictors[c].model, predictors[c].encoders,
                                           predictors[c].args)]]
    /\ UNCHANGED <<cleanVars, trainVars, storeVars, predicted, cli>>

NextPredictSteps ==
    \E c \in Callers :
        \/ PredictCall(c)
        \/ PredictReadModel(c)
        \/ PredictReadEncoders(c)
        \/ PredictCompute(c)

SpecPredictSteps == InitPredictSteps /\ [][NextPredictSteps]_vars

(***************************************************************************)
(* The store specification: completed save_model and load_model calls, one *)
(* after the other, on any of the locations.                               *)
(***************************************************************************)
Directories == {"output", "backup"}
ModelFileNames == {"model.pkl", "best.pkl"}

Locations == {Path(dir, file) : dir \in Directories, file \in ModelFileNames}

StoreFiles == Locations \cup {EncoderPath(l) : l \in Locations}

\* two trained models and the encoders of the two datasets they come from
ModelsToSave == {Estimator("Random Forest", 0), Estimator("Gradient Boosting", 1)}

EncodersToSave ==
    {FitEncoders(<<Rec(IntCell(2024), "Audi", "A3", "Dream", IntCell(2))>>),
     FitEncoders(<<Rec(IntCell(2024), "Audi", "A3", "Dream", IntCell(2)),
                   Rec(IntCell(2024), "Toyota", "Corolla", "Elegance", IntCell(3))>>)}

InitStore ==
    /\ disk = [p \in StoreFiles |-> Missing]
    /\ saved = {} /\ loaded = None /\ saver = None /\ loader = None
    /\ IdleClean /\ IdleTrain /\ IdlePredict

SaveModel ==
    /\ \E m \in ModelsToSave : \E e \in EncodersToSave : \E path \in Locations :
          /\ disk' = save_model(disk, m, e, path)
          /\ saved' = saved \cup {<<m, e>>}
    /\ UNCHANGED <<loaded, saver, loader, cleanVars, trainVars, predictVars>>

LoadModel ==
    /\ \E path \in Locations : loaded' = load_model(disk, path)
    /\ UNCHANGED <<disk, saved, saver, loader, cleanVars, trainVars, predictVars>>

NextStore == SaveModel \/ LoadModel

SpecStore == InitStore /\ [][NextStore]_vars

(***************************************************************************)
(* The interrupted-store specification: save_model and load_model at the   *)
(* default location, one file operation at a time.  A save_model call may  *)
(* be cut short between any two of its steps (the process is killed, or    *)
(* pickle.dump raises), and a load_model or predict_price of another       *)
(* process may run between them.                                           *)
(***************************************************************************)
InitStoreSteps ==
    /\ disk = [p \in PredictFiles |-> Missing]
    /\ saved = {} /\ loaded = None /\ saver = None /\ loader = None
    /\ IdleClean /\ IdleTrain /\ IdlePredict

\* save_model is called
SaveCall ==
    /\ saver = None
    /\ \E m \in ModelsToSave : \E e \in EncodersToSave :
          /\ saver' = [status |-> "open_model", model |-> m, encoders |-> e]
          /\ saved' = saved \cup {<<m, e>>}
    /\ UNCHANGED <<disk, loaded, loader, cleanVars, trainVars, predictVars>>

\* model.py:108
SaveOpenModel ==
    /\ saver.status = "open_model"
    /\ disk' = OpenForWrite(disk, DefaultPath)
    /\ saver' = [saver EXCEPT !.status = "dump_model"]
    /\ UNCHANGED <<saved, loaded, loader, cleanVars, trainVars, predictVars>>

\* model.py:109
SaveDumpModel ==
    /\ saver.status = "dump_model"
    /\ disk' = Dump(disk, DefaultPath, saver.model)
    /\ saver' = [saver EXCEPT !.status = "open_encoders"]
    /\ UNCHANGED <<saved, loaded, loader, cleanVars, trainVars, predictVars>>

\* model.py:110
SaveOpenEncoders ==
    /\ saver.status = "open_encoders"
    /\ disk' = OpenForWrite(disk, EncoderPath(DefaultPath))
    /\ saver' = [saver EXCEPT !.status = "dump_encoders"]
    /\ UNCHANGED <<saved, loaded, loader, cleanVars, trainVars, predictVars>>

\* model.py:111, after which save_model returns
SaveDumpEncoders ==
    /\ saver.status = "dump_encoders"
    /\ disk' = Dump(disk, EncoderPath(DefaultPath), saver.encoders)
    /\ saver' = None
    /\ UNCHANGED <<saved, loaded, loader, cleanVars, trainVars, predictVars>>

\* the call ends where it is: nothing is rolled back
SaveInterrupted ==
    /\ saver # None
    /\ saver' = None
    /\ UNCHANGED <<disk, saved, loaded, loader, cleanVars, trainVars, predictVars>>

\* load_model is called
LoadCall ==
    /\ loader = None
    /\ loader' = [status |-> "read_model", model |-> None]
    /\ loaded' = None
    /\ UNCHANGED <<disk, saved, saver, cleanVars, trainVars, predictVars>>

\* model.py:120-121
LoadReadModel ==
    /\ loader.status = "read_model"
    /\ LET m == ReadPickle(disk, DefaultPath)
       IN  IF m.status = "ok"
           THEN /\ loader' = [status |-> "read_encoders", model |-> m.obj]
                /\ loaded' = loaded
           ELSE /\ loader' = None
                /\ loaded' = LoadRaised(m.status)
    /\ UNCHANGED <<disk, saved, saver, cleanVars, trainVars, predictVars>>

\* model.py:122-124
LoadReadEncoders ==
    /\ loader.status = "read_encoders"
    /\ LET e == ReadPickle(disk, EncoderPath(DefaultPath))
       IN  loaded' = IF e.status = "ok"
                     THEN [status |-> "ok", model |-> loader.model, encoders |-> e.obj]
                     ELSE LoadRaised(e.status)
    /\ loader' = None
    /\ UNCHANGED <<disk, saved, saver, cleanVars, trainVars, predictVars>>

NextStoreSteps ==
    \/ SaveCall \/ SaveOpenModel \/ SaveDumpModel \/ SaveOpenEncoders
    \/ SaveDumpEncoders \/ SaveInterrupted
    \/ LoadCall \/ LoadReadModel \/ LoadReadEncoders

SpecStoreSteps == InitStoreSteps /\ [][NextStoreSteps]_vars

(***************************************************************************)
(* Claims about clean_data.                                                *)
(***************************************************************************)

C7_OutlierRemovalIdempotent ==
    (cleaned # None /\ cleaned.status = "ok") =>
        OutlierStep(cleaned.outlier) = cleaned.outlier

\* C7 as amended: a second outlier step removes nothing when the record set
\* has at most four records or when the first step removed nothing.
C7_OutlierRemovalIdempotentUpToFour ==
    (/\ cleaned # None /\ cleaned.status = "ok"
     /\ \/ Len(cleaned.typed.rows) <= 4
        \/ cleaned.outlier = cleaned.typed) =>
        OutlierStep(cleaned.outlier) = cleaned.outlier

C7_Witness ==
    /\ cleaned # None /\ cleaned.status = "ok"
    /\ Len(cleaned.typed.rows) = 4
    /\ Len(cleaned.outlier.rows) = 3
    /\ OutlierStep(cleaned.outlier) = cleaned.outlier

\* C8 as claimed: clean_data(clean_data(X)) = clean_data(X) whenever
\* clean_data(X) succeeds.
C8_CleanIdempotent ==
    (recleaned # None) =>
        /\ recleaned.status = "ok"
        /\ recleaned.frame = cleaned.frame

\* C8 as amended: clean_data(clean_data(X)) = clean_data(X) whenever the
\* outlier step of the second run removes nothing.
C8_CleanIdempotentWithoutNewOutliers ==
    (recleaned # None /\ recleaned.outlier = recleaned.typed) =>
        /\ recleaned.status = "ok"
        /\ recleaned.frame = cleaned.frame

C8_Witness ==
    /\ recleaned # None /\ recleaned.status = "ok"
    /\ recleaned.frame = cleaned.frame
    /\ Len(cleaned.outlier.rows) < Len(cleaned.typed.rows)
    /\ Len(cleaned.frame.rows) < Len(cleaned.outlier.rows)
    /\ Len(cleaned.frame.rows) >= 2

(***************************************************************************)
(* Claims about encode_features and train_models.                          *)
(***************************************************************************)
Rmses == [i \in 1..Len(Candidates) |-> trained.results[i].rmse]

MinRmse == CHOOSE r \in Range(Rmses) : \A q \in Range(Rmses) : r <= q

FirstMin == CHOOSE i \in 1..Len(Candidates) :
                /\ Rmses[i] = MinRmse
                /\ \A j \in 1..(i - 1) : Rmses[j] # MinRmse

\* C3: train_models selects the candidate with the lowest test RMSE, the
\* first in candidate order among those that share the minimum; the returned
\* model and name belong to that same candidate and its RMSE is the minimum
\* of the recorded RMSEs.
C3_SelectsFirstLowestRmse ==
    (trained # None /\ trained.status = "ok") =>
        /\ trained.best_model_name = Candidates[FirstMin]
        /\ trained.best_model = trained.results[FirstMin].model
        /\ trained.best_model.estimator = trained.best_model_name
        /\ trained.best_rmse = MinRmse

\* RMSEs [2, 1, 1]: the second candidate wins the tie
C3_Witness ==
    /\ trained # None /\ trained.status = "ok"
    /\ Rmses = <<2, 1, 1>>
    /\ trained.best_model_name = "Random Forest"

\* C9: for brand, model and package, every fitted value v satisfies
\* inverse(transform(v)) = v, and two distinct fitted values never share a
\* code.
C9_EncoderRoundTrip ==
    (encoders # None) =>
        \A c \in {"brand", "model", "package"} :
            LET classes == IF c = "brand" THEN encoders.brand
                           ELSE IF c = "model" THEN encoders.model
                           ELSE encoders.package
                fitted == Range(Column(train_df, c))
            IN  /\ \A v \in fitted :
                      /\ Transform(classes, v).status = "ok"
                      /\ Inverse(classes, Transform(classes, v).code)
                           = [status |-> "ok", value |-> v]
                /\ \A v \in fitted : \A w \in fitted :
                      v # w => Transform(classes, v).code # Transform(classes, w).code

C9_Witness ==
    /\ encoders # None
    /\ Cardinality(Range(Column(train_df, "brand"))) = 3
    /\ Cardinality(Range(Column(train_df, "package"))) = 2
    /\ Transform(encoders.brand, "Toyota").code = 2

DistinctPrices == {train_df[i].price.v : i \in 1..Len(train_df)}

\* C10: train_models fails, and returns no model, whenever the clean dataset
\* has fewer than two distinct prices or too few records for a non-empty
\* test split and a non-empty train split.
C10_InsufficientDataRejected ==
    (/\ trained # None
     /\ \/ Cardinality(DistinctPrices) < 2
        \/ NTest(Len(train_df)) = 0
        \/ NTrain(Len(train_df)) = 0) =>
        trained.status # "ok"

(***************************************************************************)
(* Claims about predict_price.                                             *)
(***************************************************************************)
StoredEncoders == disk[EncoderPath(DefaultPath)].obj

ClassesOf(enc, field) ==
    IF field = "brand" THEN enc.brand
    ELSE IF field = "model" THEN enc.model ELSE enc.package

ArgOf(args, field) ==
    IF field = "brand" THEN args.brand
    ELSE IF field = "model" THEN args.model ELSE args.package

UnknownFields(args) ==
    {f \in {"brand", "model", "package"} :
        ArgOf(args, f) \notin Range(ClassesOf(StoredEncoders, f))}

Abs(x) == IF x < 0 THEN -x ELSE x

\* C1: with brand, model and package all fitted, predict_price returns an
\* integer multiple of 10,000 that differs from the raw prediction by at most
\* 5,000, so it is a multiple of 10,000 nearest to it.
C1_PriceIsNearestMultipleOf10000 ==
    (predicted # None /\ UnknownFields(predicted.args) = {}) =>
        /\ predicted.status = "ok"
        /\ predicted.price % 10000 = 0
        /\ Abs(predicted.price - predicted.raw) <= 5000

C1_Witness ==
    /\ predicted # None /\ predicted.status = "ok"
    /\ predicted.raw = 7500 /\ predicted.price = 10000

\* C2: a predict_price call with a brand, model or package the stored encoder
\* was not fitted on returns no price: it raises an error that names an
\* offending field, carries that field's value and carries the list of that
\* field's valid values.
C2_UnknownCategoryRaises ==
    (predicted # None /\ UnknownFields(predicted.args) # {}) =>
        /\ predicted.status = "ValueError"
        /\ predicted.field \in UnknownFields(predicted.args)
        /\ predicted.value = ArgOf(predicted.args, predicted.field)
        /\ predicted.valid = ClassesOf(StoredEncoders, predicted.field)

C2_Witness ==
    /\ predicted # None /\ predicted.status = "ValueError"
    /\ predicted.args.brand = "Toyota" /\ predicted.args.model = "Corolla"
    /\ predicted.field = "package" /\ predicted.value = "Elegance"
    /\ predicted.valid = <<"Dream">>

(***************************************************************************)
(* Claims about save_model and load_model.                                 *)
(***************************************************************************)

\* C4: after any sequence of completed save_model calls, a load_model that
\* succeeds returns a model together with the encoders that were passed with
\* that model in one single save_model call.
C4_LoadReturnsOneSavedBundle ==
    (loaded # None /\ loaded.status = "ok") =>
        <<loaded.model, loaded.encoders>> \in saved

\* C5: while save_model overwrites a bundle, and after a save_model that was
\* cut short between its steps, every load_model that succeeds returns the
\* complete bundle of one save_model call, never the model of one call with
\* the encoders of another.
C5_NoPartialBundleObserved ==
    (loaded # None /\ loaded.status = "ok") =>
        \E bundle \in saved :
            /\ loaded.model = bundle[1]
            /\ loaded.encoders = bundle[2]

(***************************************************************************)
(* Claims about malformed records, the outlier bounds, the caller's frame  *)
(* and the order of the output.                                            *)
(***************************************************************************)
Malformed(r) == ~HasNull(r) /\ (~CanCast(r.year) \/ ~CanCast(r.price))

\* C11: when a record has a year or price that is present but cannot be
\* coerced to an integer, clean_data rejects only that record: it returns
\* normally, and what it returns is the cleaning of the remaining records.
C11_MalformedRecordRejectedAlone ==
    (cleaned # None /\ \E i \in 1..Len(data) : Malformed(data[i])) =>
        /\ cleaned.status = "ok"
        /\ cleaned.frame
             = clean_data(Frame(SelectSeq(data, LAMBDA r : ~Malformed(r)))).frame

TypedPrices == PriceOf(cleaned.typed)

\* the k-th smallest of the prices, counted with repetitions
OrderStatistic(k) ==
    CHOOSE v \in Range(TypedPrices) :
        /\ Cardinality({i \in 1..Len(TypedPrices) : TypedPrices[i] < v}) < k
        /\ k <= Cardinality({i \in 1..Len(TypedPrices) : TypedPrices[i] <= v})

\* four times the quantile num/4, by linear interpolation between the two
\* order statistics around position num/4 * (n - 1)
QuartileTimes4(num) ==
    LET h == num * (Len(TypedPrices) - 1)
        below == h \div 4 + 1
        weight == h % 4
    IN  IF weight = 0 THEN 4 * OrderStatistic(below)
        ELSE (4 - weight) * OrderStatistic(below) + weight * OrderStatistic(below + 1)

\* eight times Q1 - 1.5 * IQR and Q3 + 1.5 * IQR
LowerTimes8 ==
    LET q1 == QuartileTimes4(1)
        q3 == QuartileTimes4(3)
    IN  2 * q1 - 3 * (q3 - q1)

UpperTimes8 ==
    LET q1 == QuartileTimes4(1)
        q3 == QuartileTimes4(3)
    IN  2 * q3 + 3 * (q3 - q1)

\* C14: the outlier step drops exactly the records whose price is strictly
\* below Q1 - 1.5 * IQR or strictly above Q3 + 1.5 * IQR, Q1 and Q3 being the
\* quartiles by linear interpolation; a record whose price equals a bound is
\* kept.
C14_OutlierStepDropsStrictlyOutside ==
    (cleaned # None /\ cleaned.status = "ok" /\ Len(cleaned.typed.rows) > 0) =>
        LET lower8 == LowerTimes8
            upper8 == UpperTimes8
        IN  cleaned.outlier.rows
              = SelectSeq(cleaned.typed.rows,
                          LAMBDA r : ~(8 * r.price.v < lower8 \/ 8 * r.price.v > upper8))

C14_Witness ==
    /\ cleaned # None /\ cleaned.status = "ok"
    /\ Len(cleaned.outlier.rows) < Len(cleaned.typed.rows)
    /\ \E i \in 1..Len(cleaned.outlier.rows) :
          \/ 8 * cleaned.outlier.rows[i].price.v = LowerTimes8
          \/ 8 * cleaned.outlier.rows[i].price.v = UpperTimes8

\* C15: clean_data never mutates its input: after the call the caller's
\* frame holds the records it held before it, values and types alike, also
\* when the input has no missing value.
C15_InputNotMutated ==
    cleaned # None => df = load_data(data)

\* a record with its year and price as integers
Coerced(r) == [r EXCEPT !.year = IntCell(r.year.v), !.price = IntCell(r.price.v)]

\* a is b with some elements left out
RECURSIVE IsSubsequence(_, _)
IsSubsequence(a, b) ==
    IF a = <<>> THEN TRUE
    ELSE IF b = <<>> THEN FALSE
    ELSE IF Head(a) = Head(b) THEN IsSubsequence(Tail(a), Tail(b))
    ELSE IsSubsequence(a, Tail(b))

Survivors == cleaned.outlier.rows

FirstOccurrence(r) ==
    CHOOSE k \in 1..Len(Survivors) :
        Survivors[k] = r /\ \A j \in 1..(k - 1) : Survivors[j] # r

\* C16: the output of clean_data is an order-preserving subsequence of its
\* input (year and price as integers) with no two identical records, and
\* every distinct record that survives the missing-value and outlier steps
\* appears in it exactly once, at the position of its first occurrence.
C16_OutputIsDeduplicatedSubsequence ==
    (cleaned # None /\ cleaned.status = "ok") =>
        LET out == cleaned.frame.rows
        IN  /\ IsSubsequence(out, [i \in 1..Len(data) |-> Coerced(data[i])])
            /\ \A i, j \in 1..Len(out) : i # j => out[i] # out[j]
            /\ Range(out) = Range(Survivors)
            /\ \A i, j \in 1..Len(out) :
                  i < j => FirstOccurrence(out[i]) < FirstOccurrence(out[j])
            /\ cleaned.frame.index = [i \in 1..Len(out) |-> i - 1]

C16_Witness ==
    /\ cleaned # None /\ cleaned.status = "ok"
    /\ Len(cleaned.frame.rows) < Len(Survivors)
    /\ Len(Survivors) < Len(data)
    /\ \E i, j, k \in 1..Len(Survivors) :
          i < j /\ j < k /\ Survivors[i] = Survivors[k] /\ Survivors[i] # Survivors[j]

(***************************************************************************)
(* Claims about training twice and about the codes of the encoders.        *)
(***************************************************************************)
Scores(run) ==
    [i \in 1..Len(Candidates) |->
        <<run.results[i].name, run.results[i].rmse, run.results[i].mae,
          run.results[i].r2>>]

CategoryUnknown ==
    /\ cli # None /\ CanCast(cli.argv.year)
    /\ UnknownFields(cli.argv) # {}

\* C13: the error of an unknown category is distinguishable by the caller
\* from other errors: the handler that receives it receives nothing else, and
\* the exception carries the field, the value and the valid values as
\* attributes of its own.
C13_UnknownCategoryDistinguishable ==
    (cli # None /\ cli.caught = "except ValueError") =>
        /\ CategoryUnknown
        /\ {"field", "value", "valid"} \subseteq cli.exception.attrs

Reorderings(n) == {f \in [1..n -> 1..n] : \A i, j \in 1..n : f[i] = f[j] => i = j}

\* C17: when encode_features has returned, per field the distinct values
\* have the codes 0..n-1 in lexicographic order of the values, the encoded
\* frame holds those codes, and fitting on the same records in any other
\* order gives the same encoders.
C17_CodesAreSortedRanks ==
    (encoders # None /\ trained = None) =>
        /\ \A f \in {"brand", "model", "package"} :
              LET fitted == Range(Column(train_df, f))
                  code(v) == Transform(ClassesOf(encoders, f), v).code
              IN  /\ {code(v) : v \in fitted} = 0..(Cardinality(fitted) - 1)
                  /\ \A v, w \in fitted : LexLess(v, w) => code(v) < code(w)
                  /\ \A v \in fitted : Transform(ClassesOf(encoders, f), v).status = "ok"
        /\ \A i \in 1..Len(train_df) :
              /\ encode_features(train_df).df_encoded[i].brand
                   = Transform(encoders.brand, train_df[i].brand).code
              /\ encode_features(train_df).df_encoded[i].model
                   = Transform(encoders.model, train_df[i].model).code
              /\ encode_features(train_df).df_encoded[i].package
                   = Transform(encoders.package, train_df[i].package).code
        /\ \A perm \in Reorderings(Len(train_df)) :
              encode_features([i \in 1..Len(train_df) |-> train_df[perm[i]]]).encoders
                = encoders

C17_Witness ==
    /\ encoders # None /\ trained = None
    /\ Len(train_df) = MaxTrainLen
    /\ train_df[1].brand = "Toyota" /\ train_df[2].brand = "Audi"
    /\ Transform(encoders.brand, "Toyota").code = 1
    /\ Transform(encoders.brand, "Audi").code = 0

(***************************************************************************)
(* Claims about predict_price calls made side by side.                     *)
(***************************************************************************)
\* the file system as the completed save of the bundle left it
BundleDisk ==
    LET bundle == CHOOSE b \in saved : TRUE
    IN  save_model([p \in PredictFiles |-> Missing], bundle[1], bundle[2], DefaultPath)

\* what the call of caller c gives when it runs alone against the bundle
Alone(c) ==
    predict_price(BundleDisk, predictors[c].args.year, predictors[c].args.brand,
                  predictors[c].args.model, predictors[c].args.package)

\* C18: predict_price leaves the persisted bundle as it is, and every one of
\* the interleaved calls against the bundle gives what it gives when run
\* alone.
C18_InterleavedPredictionsAsAlone ==
    /\ disk = BundleDisk
    /\ \A c \in Callers :
          predictors[c].pc = "done" => predictors[c].result = Alone(c)

C18_Witness ==
    /\ \A c \in Callers : predictors[c].pc = "done"
    /\ \E c \in Callers : predictors[c].overlapped
    /\ predictors["first"].result.status = "ok"
    /\ predictors["second"].result.status = "ValueError"
    /\ predictors["first"].args.year # predictors["second"].args.year
====
